---- MODULE Spec2Model ----
(***************************************************************************)
(* Model of velwu/docker_fin_data: the ingestion job (get_raw_data.py)     *)
(* that upserts daily quotes into the financial_data table, and the two    *)
(* read endpoints of the Flask API (financial/app.py) that query it.       *)
(*                                                                         *)
(* The record store is a PostgreSQL table.  `store` is its committed       *)
(* content; every ingestion call runs in one transaction whose inserted    *)
(* rows stay in `pending` (invisible to every other connection) until the  *)
(* `with psycopg2.connect(...)` block commits.  Each SQL statement of the  *)
(* API reads the committed content at the moment it executes (READ         *)
(* COMMITTED, the server default; the code sets no isolation level).       *)
(***************************************************************************)
EXTENDS Integers, Sequences, FiniteSets, TLC

VARIABLES
    store,      \* committed rows of financial_data
    run,        \* run[r]: state of ingestion run r (one execution of main)
    req         \* the API request in flight, or the last response

vars == <<store, run, req>>

---------------------------------------------------------------------------
(* Bounds *)

\* Days the market-data provider lists quotes for (days 1..MaxDate).
MaxDate == 2
\* Largest page size and page number a request asks for.
MaxLimit == 3
MaxPage == 3

\* The executions of main() that may overlap: two ingestion runs.
Runs == { "A", "B" }
Days == 1..MaxDate

---------------------------------------------------------------------------
(* Values *)

\* 'YYYY-MM-DD' strings of the modelled calendar days, oldest first.
DateTable ==
    << "2023-01-02", "2023-01-03", "2023-01-04", "2023-01-05", "2023-01-06",
       "2023-01-09", "2023-01-10", "2023-01-11", "2023-01-12", "2023-01-13" >>

\* datetime.strptime(s, '%Y-%m-%d') / the store's cast of a string to DATE:
\* the day the string denotes, 0 when it does not parse (ValueError).
ParseDate(s) ==
    IF \E d \in 1..Len(DateTable) : DateTable[d] = s
    THEN CHOOSE d \in 1..Len(DateTable) : DateTable[d] = s
    ELSE 0

\* date.strftime('%Y-%m-%d')
FormatDate(d) == DateTable[d]

\* for symbol in ['IBM', 'AAPL']
SymbolList == << "IBM", "AAPL" >>

\* What the provider may report for one symbol and day: prices in cents.
Quotes ==
    { [open_price |-> 14238, close_price |-> 14370, volume |-> 1],
      [open_price |-> 14408, close_price |-> 14355, volume |-> 2] }

\* The run's clock: datetime.today() falls on the newest day the provider has.
Today == MaxDate

\* (symbol, date): the conflict target of the insert statement.
Key(x) == << x.symbol, x.date >>

---------------------------------------------------------------------------
(* Ingestion: get_raw_data.py *)

\* The days fetch_stock_data keeps: date_obj >= today - timedelta(days) and
\* date_obj <= today, where date_obj is a midnight and today carries the
\* time of day of the run, so the window holds the `days` newest days.
InWindow(d, days) == d > Today - days /\ d <= Today

\* The days of `S` in the order the provider lists them (newest first), which
\* is the order time_series.items() yields and processed_data keeps.
NewestFirst(S) ==
    CHOOSE s \in [1..Cardinality(S) -> S] :
        \A i, j \in 1..Cardinality(S) : i < j => s[i] > s[j]

\* The lists fetch_stock_data can return for a symbol: one dict per day of
\* the window, in the provider's order, with whatever the provider reports
\* for that day; or the empty list, when the response carries no
\* 'Time Series (Daily)' object.
FetchResults(symbol, days) ==
    LET w == NewestFirst({ d \in Days : InWindow(d, days) })
    IN  { [k \in 1..Len(w) |->
              [symbol |-> symbol, date |-> FormatDate(w[k]),
               open_price |-> q[k].open_price,
               close_price |-> q[k].close_price,
               volume |-> q[k].volume]] : q \in [1..Len(w) -> Quotes] }
        \cup { << >> }

\* The table row a tuple of data_tuples becomes: the date column holds the
\* date the string denotes, the id column a value no other row holds.  The
\* program never computes with an id, so the sequence value is kept as `id`,
\* the identity of the insert that drew it: a run inserts a key at most once,
\* so the run names the value among the rows of one key.
RowOf(d, id) ==
    [id |-> id, symbol |-> d.symbol, date |-> ParseDate(d.date),
     open_price |-> d.open_price, close_price |-> d.close_price,
     volume |-> d.volume]

\* HasConflict of an insert statement without its ON CONFLICT clause.
HasConflict_NoClause(row, rows) == FALSE

\* ON CONFLICT (symbol, date): a row of `rows` has the key of `row`.
HasConflict(row, rows) == \E x \in rows : Key(x) = Key(row)

\* The table's uniqueness constraint on (symbol, date), which the conflict
\* target of the insert statement names: `row` would duplicate a row of `rows`.
ViolatesUnique(row, rows) ==
    \E x \in rows : x.symbol = row.symbol /\ x.date = row.date

\* Rows other transactions have inserted and not yet committed.
PendingOfOthers(r) == UNION { run[o].pending : o \in Runs \ {r} }

IdleRun ==
    [pc |-> "idle", days |-> 0, sym |-> 1, data |-> << >>, i |-> 1,
     pending |-> {}, error |-> "none"]

\* python get_raw_data.py [days]: main(days) starts with the first symbol.
StartRun(r) ==
    /\ run[r].pc = "idle"
    /\ \E days \in 0..MaxDate :
          run' = [run EXCEPT ![r].pc = "fetch", ![r].days = days]
    /\ UNCHANGED <<store, req>>

\* data = fetch_stock_data(symbol, days)
Fetch(r) ==
    /\ run[r].pc = "fetch"
    /\ \E data \in FetchResults(SymbolList[run[r].sym], run[r].days) :
          run' = [run EXCEPT ![r].pc = "insert", ![r].data = data, ![r].i = 1]
    /\ UNCHANGED <<store, req>>

\* FetchFail of a loop that catches the error and goes on to the next symbol.
FetchFail_Continue(r) ==
    /\ run[r].pc = "fetch"
    /\ run' = [run EXCEPT ![r].pc = IF run[r].sym < Len(SymbolList)
                                    THEN "fetch" ELSE "failed",
                          ![r].sym = IF run[r].sym < Len(SymbolList)
                                     THEN @ + 1 ELSE @,
                          ![r].error = "HTTPError"]
    /\ UNCHANGED <<store, req>>

\* response.raise_for_status() raises: main ends with the HTTPError.
FetchFail(r) ==
    /\ run[r].pc = "fetch"
    /\ run' = [run EXCEPT ![r].pc = "failed", ![r].error = "HTTPError"]
    /\ UNCHANGED <<store, req>>

\* InsertRow on a connection in autocommit mode: every inserted row is
\* committed by its own statement.
InsertRow_Autocommit(r) ==
    /\ run[r].pc = "insert"
    /\ run[r].i <= Len(run[r].data)
    /\ LET row == RowOf(run[r].data[run[r].i], r)
       IN  /\ run' = [run EXCEPT ![r].i = @ + 1]
           /\ store' = IF HasConflict(row, store) THEN store
                       ELSE store \cup {row}
    /\ UNCHANGED req

\* execute_values: the statement takes the next tuple of data_tuples.  While
\* another transaction holds an uncommitted row with the tuple's key, the
\* statement waits for that transaction to end.  A key the conflict target
\* finds among the rows this transaction sees (the committed ones and its
\* own) makes the statement skip the tuple (DO NOTHING); a duplicate the
\* conflict target does not cover is a unique violation, which rolls the
\* transaction back and ends main; otherwise the row is inserted, visible
\* to this transaction alone.
InsertRow(r) ==
    /\ run[r].pc = "insert"
    /\ run[r].i <= Len(run[r].data)
    /\ LET row == RowOf(run[r].data[run[r].i], r)
           seen == store \cup run[r].pending
       IN  /\ ~ ViolatesUnique(row, PendingOfOthers(r))
           /\ IF HasConflict(row, seen)
              THEN run' = [run EXCEPT ![r].i = @ + 1]
              ELSE IF ViolatesUnique(row, seen)
              THEN run' = [run EXCEPT ![r].pc = "failed", ![r].pending = {},
                                      ![r].data = << >>, ![r].i = 1,
                                      ![r].error = "UniqueViolation"]
              ELSE run' = [run EXCEPT ![r].i = @ + 1,
                                      ![r].pending = @ \cup {row}]
    /\ UNCHANGED <<store, req>>

\* Commit of a load that empties the table first (TRUNCATE, then INSERT).
Commit_Truncating(r) ==
    /\ run[r].pc = "insert"
    /\ run[r].i > Len(run[r].data)
    /\ store' = run[r].pending
    /\ run' = [run EXCEPT ![r].pending = {}, ![r].data = << >>, ![r].i = 1,
                          ![r].pc = IF run[r].sym < Len(SymbolList)
                                    THEN "fetch" ELSE "done",
                          ![r].sym = IF run[r].sym < Len(SymbolList)
                                     THEN @ + 1 ELSE @]
    /\ UNCHANGED req

\* The with-block of insert_data_into_db ends: the transaction commits, the
\* loop of main goes on to the next symbol or main returns.
Commit(r) ==
    /\ run[r].pc = "insert"
    /\ run[r].i > Len(run[r].data)
    /\ store' = store \cup run[r].pending
    /\ run' = [run EXCEPT ![r].pending = {}, ![r].data = << >>, ![r].i = 1,
                          ![r].pc = IF run[r].sym < Len(SymbolList)
                                    THEN "fetch" ELSE "done",
                          ![r].sym = IF run[r].sym < Len(SymbolList)
                                     THEN @ + 1 ELSE @]
    /\ UNCHANGED req

\* A database error inside insert_data_into_db (connection or statement):
\* the with-block rolls the transaction back and main ends with the error.
InsertFail(r) ==
    /\ run[r].pc = "insert"
    /\ run' = [run EXCEPT ![r].pc = "failed", ![r].pending = {},
                          ![r].data = << >>, ![r].i = 1,
                          ![r].error = "OperationalError"]
    /\ UNCHANGED <<store, req>>

---------------------------------------------------------------------------
(* The API: financial/app.py *)

\* request.args.get(name) of a parameter the query string does not carry.
None == "(None)"

\* Truthy as `s is not None`: an empty parameter counts as given.
Truthy_NotNone(s) == s # None

\* Truth value of an optional string: None and '' are false.
Truthy(s) == s # None /\ s # ""

\* request.args.get(name, default=..., type=int): the parsed integer, or the
\* default when the parameter is absent or does not parse.
ArgInt(raw, default) == IF raw.kind = "int" THEN raw.val ELSE default

DefaultLimit == 5
DefaultPage == 1

\* Offset counting pages from zero: page * limit.
Offset_FromPage(page, limit) == page * limit

\* offset = (page - 1) * limit
Offset(page, limit) == (page - 1) * limit

\* Matches with the date bounds exclusive: date > start, date < end.
Matches_Exclusive(x, start_date, end_date, symbol) ==
    /\ Truthy(start_date) => x.date > ParseDate(start_date)
    /\ Truthy(end_date) => x.date < ParseDate(end_date)
    /\ Truthy(symbol) => x.symbol = symbol

\* where_clause: each present filter is one condition, joined by AND; "1=1"
\* when there is none.  The store casts the date strings to dates.
Matches(x, start_date, end_date, symbol) ==
    /\ Truthy(start_date) => x.date >= ParseDate(start_date)
    /\ Truthy(end_date) => x.date <= ParseDate(end_date)
    /\ Truthy(symbol) => x.symbol = symbol

\* SELECT COUNT(*) FROM financial_data WHERE {where_clause}
CountQuery(rows, start_date, end_date, symbol) ==
    Cardinality({ x \in rows : Matches(x, start_date, end_date, symbol) })

\* ORDER BY date: every arrangement of `S` with the dates ascending; rows of
\* one date come in whatever order the store produces.
RECURSIVE OrderedByDate(_)
OrderedByDate(S) ==
    IF S = {} THEN { << >> }
    ELSE LET first == { x \in S : \A y \in S : x.date <= y.date }
         IN  UNION { { <<x>> \o t : t \in OrderedByDate(S \ {x}) } : x \in first }

\* LimitOffset of a query without its OFFSET: always the first rows.
LimitOffset_NoOffset(seq, limit, offset) ==
    SubSeq(seq, 1, IF limit < Len(seq) THEN limit ELSE Len(seq))

\* LIMIT limit OFFSET offset (both >= 0) of an ordered result.
LimitOffset(seq, limit, offset) ==
    IF offset >= Len(seq) \/ limit = 0 THEN << >>
    ELSE SubSeq(seq, offset + 1,
                IF offset + limit < Len(seq) THEN offset + limit ELSE Len(seq))

\* TotalPages without the round-up term: total_count // limit.
TotalPages_Floor(total_count, limit) == total_count \div limit

\* total_pages = (total_count + limit - 1) // limit, for limit > 0
TotalPages(total_count, limit) == (total_count + limit - 1) \div limit

\* formatted_row: the row as a dict, its date rendered as 'YYYY-MM-DD'.
FormatRow(x) == [x EXCEPT !.date = FormatDate(x.date)]

\* The request slot when no request has been made.
IdleReq ==
    [pc |-> "idle", kind |-> "none", start_date |-> None, end_date |-> None,
     symbol |-> None, limit |-> 0, page |-> 0, offset |-> 0,
     total_count |-> 0, queries |-> << >>, status |-> 0, fault |-> "none",
     error |-> None, data |-> << >>, pages |-> 0, stats |-> << >>]

\* Query strings of a listing request: every filter absent, empty or given,
\* limit and page absent, unparseable or an integer.
ListDateArgs == { None, "" } \cup { FormatDate(d) : d \in Days }
SymbolArgs == { None, "", "IBM", "AAPL", "MSFT" }
IntArg(n) == [kind |-> "int", val |-> n]
NoIntArgs == { [kind |-> "absent", val |-> 0], [kind |-> "garbage", val |-> 0] }
LimitArgs == NoIntArgs \cup { IntArg(n) : n \in -1..MaxLimit }
PageArgs == NoIntArgs \cup { IntArg(n) : n \in 0..MaxPage }
ListArgs ==
    [start_date : ListDateArgs, end_date : ListDateArgs, symbol : SymbolArgs,
     limit : LimitArgs, page : PageArgs]

\* GET /api/financial_data with one of the query strings `args`: the handler
\* reads its parameters and computes the offset and the filter.
ListBegin(args) ==
    /\ req.pc = "idle"
    /\ \E a \in args :
          req' = [IdleReq EXCEPT
                    !.pc = "count", !.kind = "list",
                    !.start_date = a.start_date, !.end_date = a.end_date,
                    !.symbol = a.symbol,
                    !.limit = ArgInt(a.limit, DefaultLimit),
                    !.page = ArgInt(a.page, DefaultPage),
                    !.offset = Offset(ArgInt(a.page, DefaultPage),
                                      ArgInt(a.limit, DefaultLimit))]
    /\ UNCHANGED <<store, run>>

\* ListCount with total_pages computed right after the count query.
ListCount_ThenDivide ==
    /\ req.pc = "count"
    /\ IF req.limit = 0
       THEN req' = [req EXCEPT !.pc = "fault", !.status = 500,
                               !.queries = Append(@, "count"),
                               !.fault = "ZeroDivisionError"]
       ELSE req' = [req EXCEPT
                      !.pc = "page",
                      !.queries = Append(@, "count"),
                      !.total_count = CountQuery(store, req.start_date,
                                                 req.end_date, req.symbol)]
    /\ UNCHANGED <<store, run>>

\* cur.execute(count_query, ...); total_count = cur.fetchone()[0]
ListCount ==
    /\ req.pc = "count"
    /\ req' = [req EXCEPT
                 !.pc = "page",
                 !.queries = Append(@, "count"),
                 !.total_count = CountQuery(store, req.start_date,
                                            req.end_date, req.symbol)]
    /\ UNCHANGED <<store, run>>

\* cur.execute(data_query, ...); data = cur.fetchall(), and the rest of the
\* handler, which touches nothing shared.  The store rejects a negative
\* LIMIT or OFFSET; the division by limit raises when limit is 0; either
\* exception leaves the handler and the request ends as a server fault.
ListPage ==
    /\ req.pc = "page"
    /\ IF req.limit < 0 \/ req.offset < 0
       THEN req' = [req EXCEPT !.pc = "fault", !.status = 500,
                               !.queries = Append(@, "page"),
                               !.fault = "DataError"]
       ELSE \E ordered \in OrderedByDate({ x \in store :
                    Matches(x, req.start_date, req.end_date, req.symbol) }) :
              LET data == LimitOffset(ordered, req.limit, req.offset)
              IN  IF req.limit = 0
                  THEN req' = [req EXCEPT !.pc = "fault", !.status = 500,
                                          !.queries = Append(@, "page"),
                                          !.fault = "ZeroDivisionError"]
                  ELSE req' = [req EXCEPT
                                 !.pc = "done", !.status = 200,
                                 !.queries = Append(@, "page"),
                                 !.pages = TotalPages(req.total_count, req.limit),
                                 !.data = [k \in 1..Len(data) |-> FormatRow(data[k])]]
    /\ UNCHANGED <<store, run>>

RECURSIVE SumOf(_, _)
SumOf(S, column) ==
    IF S = {} THEN 0
    ELSE LET x == CHOOSE y \in S : TRUE
         IN  x[column] + SumOf(S \ {x}, column)

\* IntOfAvg rounding to the nearest integer instead: round(avg).
IntOfAvg_Rounded(sum, n) == (2 * sum + n) \div (2 * n)

\* int(result['average_daily_volume']): AVG(volume::numeric) is the exact
\* quotient sum/n, and int() of a Decimal drops its fraction (toward zero).
IntOfAvg(sum, n) ==
    IF sum >= 0 THEN sum \div n ELSE -((-sum) \div n)

\* round(float(avg), 2) of a price average, in cents: the nearest cent; an
\* average exactly halfway between two cents goes to either, as the binary
\* float nearest to it lies on one side or the other.
RoundedAvg(sum, n) ==
    { c \in { sum \div n, (sum \div n) + 1 } :
        2 * (IF c * n >= sum THEN c * n - sum ELSE sum - c * n) <= n }

\* WHERE symbol = %s AND date BETWEEN %s AND %s
InRange(x, start_date, end_date, symbol) ==
    /\ x.symbol = symbol
    /\ ParseDate(start_date) <= x.date
    /\ x.date <= ParseDate(end_date)

\* SELECT EXISTS(SELECT 1 FROM financial_data WHERE symbol = %s)
SymbolExists(rows, symbol) == \E x \in rows : x.symbol = symbol

MissingMsg ==
    "Missing required parameters: start_date, end_date, and symbol are all required."
InvalidDateMsg == "Invalid date format or logic"
NotFoundMsg == "Symbol not found in the database."

\* Query strings of a statistics request: each parameter absent, empty or
\* given, a date given also in a form that is not '%Y-%m-%d'.
StatsDateArgs == { None, "", "01/03/2023" } \cup { FormatDate(d) : d \in Days }
StatsArgs ==
    [start_date : StatsDateArgs, end_date : StatsDateArgs, symbol : SymbolArgs]

\* GET /api/statistics with one of the query strings `args`: the handler
\* reads its parameters and validates them: all three present and non-empty,
\* both dates in '%Y-%m-%d' form, start_date not after end_date.  The first
\* failing check answers 400.
StatsBegin(args) ==
    /\ req.pc = "idle"
    /\ \E a \in args :
          LET q == [IdleReq EXCEPT !.kind = "stats",
                                   !.start_date = a.start_date,
                                   !.end_date = a.end_date,
                                   !.symbol = a.symbol]
          IN  IF ~ (Truthy(a.start_date) /\ Truthy(a.end_date)
                      /\ Truthy(a.symbol))
              THEN req' = [q EXCEPT !.pc = "done", !.status = 400,
                                    !.error = MissingMsg]
              ELSE IF \/ ParseDate(a.start_date) = 0
                      \/ ParseDate(a.end_date) = 0
                      \/ ParseDate(a.start_date) > ParseDate(a.end_date)
              THEN req' = [q EXCEPT !.pc = "done", !.status = 400,
                                    !.error = InvalidDateMsg]
              ELSE req' = [q EXCEPT !.pc = "exists"]
    /\ UNCHANGED <<store, run>>

\* StatsExists without the test of the lookup's result.
StatsExists_NoCheck ==
    /\ req.pc = "exists"
    /\ req' = [req EXCEPT !.pc = "avg", !.queries = Append(@, "exists")]
    /\ UNCHANGED <<store, run>>

\* if not check_symbol_exists(symbol): answer 404.
StatsExists ==
    /\ req.pc = "exists"
    /\ IF SymbolExists(store, req.symbol)
       THEN req' = [req EXCEPT !.pc = "avg", !.queries = Append(@, "exists")]
       ELSE req' = [req EXCEPT !.pc = "done", !.status = 404,
                               !.queries = Append(@, "exists"),
                               !.error = NotFoundMsg]
    /\ UNCHANGED <<store, run>>

\* cur.execute(stats_query, ...); result = cur.fetchone(), and the rest of
\* the handler.  An aggregate query always returns one row, so `if result`
\* holds; over no row the three averages are NULL and float(None) raises a
\* TypeError, which leaves the handler: the request ends as a server fault.
StatsAvg ==
    /\ req.pc = "avg"
    /\ LET rows == { x \in store :
                       InRange(x, req.start_date, req.end_date, req.symbol) }
           n == Cardinality(rows)
       IN  IF n = 0
           THEN req' = [req EXCEPT !.pc = "fault", !.status = 500,
                                   !.queries = Append(@, "avg"),
                                   !.fault = "TypeError"]
           ELSE \E open \in RoundedAvg(SumOf(rows, "open_price"), n),
                   close \in RoundedAvg(SumOf(rows, "close_price"), n) :
                  req' = [req EXCEPT
                     !.pc = "done", !.status = 200,
                     !.queries = Append(@, "avg"),
                     !.stats =
                        [start_date |-> req.start_date,
                         end_date |-> req.end_date,
                         symbol |-> req.symbol,
                         average_daily_open_price |-> open,
                         average_daily_close_price |-> close,
                         average_daily_volume |->
                             IntOfAvg(SumOf(rows, "volume"), n)]]
    /\ UNCHANGED <<store, run>>

\* The response (or the fault) has been delivered; the next request of the
\* client can be made.
EndRequest ==
    /\ req.pc \in { "done", "fault" }
    /\ req' = IdleReq
    /\ UNCHANGED <<store, run>>

---------------------------------------------------------------------------
(* Specifications *)

\* The store before any ingestion, no run started, no request made.
Init ==
    /\ store = {}
    /\ run = [r \in Runs |-> IdleRun]
    /\ req = IdleReq

RunStep(r) ==
    \/ StartRun(r)
    \/ Fetch(r)
    \/ FetchFail(r)
    \/ InsertRow(r)
    \/ Commit(r)
    \/ InsertFail(r)

\* Requests made while an ingestion runs: listings of everything or of one
\* symbol, by pages of one row or of MaxLimit rows, first or second page;
\* statistics of one symbol over all the days.
SomeListArgs ==
    { a \in ListArgs :
        /\ a.start_date = None /\ a.end_date = None
        /\ a.symbol \in { None, "IBM" }
        /\ a.limit \in { IntArg(1), IntArg(MaxLimit) }
        /\ a.page \in { IntArg(1), IntArg(2) } }
SomeStatsArgs ==
    { a \in StatsArgs :
        /\ a.start_date = FormatDate(1) /\ a.end_date = FormatDate(MaxDate)
        /\ a.symbol \in { "IBM", "AAPL" } }

Next ==
    \/ RunStep("A")
    \/ ListBegin(SomeListArgs)
    \/ ListCount
    \/ ListPage
    \/ StatsBegin(SomeStatsArgs)
    \/ StatsExists
    \/ StatsAvg
    \/ EndRequest

\* One ingestion run and the requests of the API, interleaved in every way.
Spec == Init /\ [][Next]_vars

NextIngest == \E r \in Runs : RunStep(r)

\* Two ingestion runs, overlapping in every way, and no request.
SpecIngest == Init /\ [][NextIngest]_vars

\* The stores one complete run of main(days) can leave: each symbol's rows
\* as fetched and committed by run "A".
StoresAfterRun ==
    UNION { { { RowOf(ibm[k], "A") : k \in 1..Len(ibm) }
                \cup { RowOf(aapl[k], "A") : k \in 1..Len(aapl) } :
              ibm \in FetchResults("IBM", days),
              aapl \in FetchResults("AAPL", days) } : days \in 0..MaxDate }

InitQuery ==
    /\ store \in StoresAfterRun
    /\ run = [r \in Runs |-> IdleRun]
    /\ req = IdleReq

NextQuery ==
    \/ ListBegin(ListArgs)
    \/ ListCount
    \/ ListPage
    \/ StatsBegin(StatsArgs)
    \/ StatsExists
    \/ StatsAvg
    \/ EndRequest

\* Requests of every kind, one at a time, against a store an ingestion run
\* has left.
SpecQuery == InitQuery /\ [][NextQuery]_vars

---------------------------------------------------------------------------
(* Properties of the ingestion *)

UniqueKeys(rows) == \A x, y \in rows : Key(x) = Key(y) => x = y

\* The key a tuple of data_tuples has once it is a row.
TupleKey(d) == << d.symbol, ParseDate(d.date) >>

---------------------------------------------------------------------------
(* Properties of the statistics endpoint *)

\* The strings that denote a calendar date in 'YYYY-MM-DD' form.
DateStrings == { DateTable[d] : d \in 1..Len(DateTable) }

Given(s) == s \notin { None, "" }

\* A statistics request has ended, with a response or a fault.
StatsEnded == req.kind = "stats" /\ req.pc \in { "done", "fault" }

\* The rows of the store with the request's symbol and a date in
\* [start_date, end_date].
RowsInRange ==
    { x \in store : /\ x.symbol = req.symbol
                    /\ ParseDate(req.start_date) <= x.date
                    /\ x.date <= ParseDate(req.end_date) }

ParamMissing ==
    ~ (Given(req.start_date) /\ Given(req.end_date) /\ Given(req.symbol))

DatesInvalid ==
    \/ req.start_date \notin DateStrings
    \/ req.end_date \notin DateStrings
    \/ \E a, b \in 1..Len(DateTable) :
          DateTable[a] = req.start_date /\ DateTable[b] = req.end_date /\ a > b

SymbolUnknown == ~ \E x \in store : x.symbol = req.symbol

\* C2: get_statistics checks in a fixed order and the first failing check
\* decides: a missing or empty parameter gives 400 (missing parameter)
\* whatever the others are; otherwise a date that does not parse, or
\* start_date after end_date, gives 400 (invalid date) whether or not the
\* symbol exists; otherwise a symbol with no row gives 404; each such
\* failure has data == {} and a non-null info.error.
C2_ValidationOrder ==
    StatsEnded =>
        /\ ParamMissing =>
              req.pc = "done" /\ req.status = 400 /\ req.error = MissingMsg
        /\ (~ ParamMissing /\ DatesInvalid) =>
              req.pc = "done" /\ req.status = 400 /\ req.error = InvalidDateMsg
        /\ (~ ParamMissing /\ ~ DatesInvalid /\ SymbolUnknown) =>
              req.pc = "done" /\ req.status = 404 /\ req.error = NotFoundMsg
        /\ (ParamMissing \/ DatesInvalid \/ SymbolUnknown) =>
              req.stats = << >> /\ req.error # None

\* A request with an empty symbol and a malformed date was answered 400 for
\* the missing parameter, and the store holds rows.
C2_Witness ==
    /\ StatsEnded /\ req.status = 400 /\ req.error = MissingMsg
    /\ req.symbol = "" /\ req.start_date = "01/03/2023"
    /\ store # {}

\* C3: a request that passes validation for a symbol that has rows, none of
\* them in [start_date, end_date], gets the NoDataInRange result: status
\* 200, an empty data payload and an explanatory note.
C3_NoDataInRange ==
    (/\ StatsEnded
     /\ ~ ParamMissing /\ ~ DatesInvalid /\ ~ SymbolUnknown
     /\ RowsInRange = {}) =>
        /\ req.pc = "done" /\ req.status = 200
        /\ req.stats = << >> /\ req.error # None

\* C9: average_daily_volume of a successful response is the mean of the
\* volumes of the rows in range cut to an integer toward zero: the largest
\* integer not above sum/n, never the next one.
C9_VolumeTruncated ==
    (StatsEnded /\ req.status = 200) =>
        LET n == Cardinality(RowsInRange)
            sum == SumOf(RowsInRange, "volume")
            v == req.stats.average_daily_volume
        IN  /\ n > 0
            /\ v * n <= sum
            /\ sum < (v + 1) * n

\* A successful response over rows whose mean volume has a fraction of one
\* half or more: rounding would give the next integer.
C9_Witness ==
    /\ StatsEnded /\ req.status = 200
    /\ LET n == Cardinality(RowsInRange)
           sum == SumOf(RowsInRange, "volume")
       IN  /\ n > 1
           /\ 2 * (sum - req.stats.average_daily_volume * n) >= n

\* C13: get_statistics touches the store in a strict order.  A request
\* whose presence or date validation fails accesses the store not at all;
\* the existence lookup is the first access and is made with all three
\* parameters given and the dates valid; the aggregate query comes only
\* after a lookup that found the symbol; a request makes at most one lookup
\* followed by at most one aggregate query, and each step adds at most one
\* access.
C13_StoreAccessOrder ==
    /\ [](req.kind = "stats" =>
            /\ req.queries \in { << >>, << "exists" >>, << "exists", "avg" >> }
            /\ (ParamMissing \/ DatesInvalid) => req.queries = << >>
            /\ req.pc = "exists" => req.queries = << >>
            /\ req.pc = "avg" => req.queries = << "exists" >>
            /\ req.queries = << "exists", "avg" >> =>
                  ~ SymbolUnknown /\ req.pc \in { "done", "fault" }
            /\ (req.pc = "done" /\ req.status = 404) =>
                  req.queries = << "exists" >>
            /\ (req.pc = "done" /\ req.status = 200) =>
                  req.queries = << "exists", "avg" >>)
    /\ [][(req.kind = "stats" /\ req'.kind = "stats") =>
             \/ req'.queries = req.queries
             \/ /\ Len(req'.queries) = Len(req.queries) + 1
                /\ SubSeq(req'.queries, 1, Len(req.queries)) = req.queries]_vars

\* A request for a symbol the store holds, over a range with rows, was
\* answered after one lookup and one aggregate query.
C13_Witness ==
    /\ StatsEnded /\ req.status = 200
    /\ req.queries = << "exists", "avg" >>
    /\ RowsInRange # {}

---------------------------------------------------------------------------
(* Properties of the listing endpoint *)

\* The rows of the store that satisfy every filter the request gives.
Filtered ==
    { x \in store :
        /\ Given(req.start_date) => x.date >= ParseDate(req.start_date)
        /\ Given(req.end_date) => x.date <= ParseDate(req.end_date)
        /\ Given(req.symbol) => x.symbol = req.symbol }

\* A listing request has been answered.
ListAnswered == req.kind = "list" /\ req.pc = "done"

\* C4: pagination.count of every listing response is the number of store
\* rows that satisfy all the filters given (date >= start_date, date <=
\* end_date, symbol = symbol; every row when none is given), whatever limit
\* and page are.
C4_CountMatchesFilter ==
    ListAnswered => req.total_count = Cardinality(Filtered)

\* A response to a request with all three filters that counts some rows,
\* not all, one of them dated start_date, and that has more pages than one.
C4_Witness ==
    /\ ListAnswered
    /\ Given(req.start_date) /\ Given(req.end_date) /\ Given(req.symbol)
    /\ req.total_count > 0 /\ req.total_count < Cardinality(store)
    /\ \E x \in Filtered : x.date = ParseDate(req.start_date)
    /\ req.total_count > req.limit

\* C5: for limit >= 1 and page >= 1 the rows of a response are those at
\* positions (page-1)*limit .. (page-1)*limit + limit - 1 of the filtered
\* rows in date order: min(limit, count - (page-1)*limit) of them (none when
\* that is not positive), each one a filtered row, no row twice, dates
\* non-decreasing, the k-th preceded in the filtered set by exactly
\* (page-1)*limit + k - 1 rows in some date order.
C5_PageIsSlice ==
    (ListAnswered /\ req.limit >= 1 /\ req.page >= 1) =>
        LET first == (req.page - 1) * req.limit
            count == Cardinality(Filtered)
            left == IF count > first THEN count - first ELSE 0
            dateOf(k) == ParseDate(req.data[k].date)
        IN  /\ Len(req.data) = IF left < req.limit THEN left ELSE req.limit
            /\ \A k \in 1..Len(req.data) :
                  /\ \E x \in Filtered :
                        req.data[k] = [x EXCEPT !.date = DateTable[x.date]]
                  /\ Cardinality({ x \in Filtered : x.date < dateOf(k) })
                        <= first + k - 1
                  /\ Cardinality({ x \in Filtered : x.date <= dateOf(k) })
                        >= first + k
            /\ \A j, k \in 1..Len(req.data) :
                  j < k => /\ req.data[j] # req.data[k]
                           /\ dateOf(j) <= dateOf(k)

\* A response for page 2 that holds rows, after a first page that was full.
C5_Witness ==
    /\ ListAnswered /\ req.page = 2 /\ req.limit >= 1
    /\ Len(req.data) >= 1
    /\ Cardinality(Filtered) > req.limit

\* C6 as claimed: pages is ceil(count / limit), pages is 1 when count <=
\* limit, and pages is 0 only when count is 0.
C6_PagesAsClaimed ==
    (ListAnswered /\ req.limit > 0) =>
        /\ req.pages * req.limit >= req.total_count
        /\ (req.pages - 1) * req.limit < req.total_count
        /\ req.total_count <= req.limit => req.pages = 1
        /\ req.pages = 0 => req.total_count = 0

\* C6, amended: pages is ceil(count / limit), the least number of pages of
\* `limit` rows that hold `count` rows; pages is 1 when 1 <= count <= limit,
\* and pages is 0 exactly when count is 0.
C6_PagesIsCeiling ==
    (ListAnswered /\ req.limit > 0) =>
        /\ req.pages * req.limit >= req.total_count
        /\ (req.pages - 1) * req.limit < req.total_count
        /\ (1 <= req.total_count /\ req.total_count <= req.limit)
              => req.pages = 1
        /\ req.pages = 0 <=> req.total_count = 0

\* A response whose count is no multiple of limit and exceeds it.
C6_Witness ==
    /\ ListAnswered /\ req.limit > 1
    /\ req.total_count > req.limit
    /\ req.total_count % req.limit # 0

\* C10: a request with limit = 0 ends in a division-by-zero fault, not in a
\* response: limit stays 0 (no floor), and the fault comes after the count
\* query and the page query have both been executed.
C10_ZeroLimitFaults ==
    (req.kind = "list" /\ req.limit = 0) =>
        /\ req.pc # "done"
        /\ req.pc = "fault" =>
              /\ req.fault = "ZeroDivisionError"
              /\ req.status = 500
              /\ req.queries = << "count", "page" >>

\* A request with limit = 0 whose count query found rows has ended in the
\* fault.
C10_Witness ==
    /\ req.kind = "list" /\ req.limit = 0 /\ req.pc = "fault"
    /\ req.total_count > 0

---------------------------------------------------------------------------
(* Properties of the store under ingestion and requests together *)

\* C8: the store is append-only: whatever insert_data_into_db,
\* get_financial_data, get_statistics and check_symbol_exists do, in any
\* order, every row that was in the store is in it afterwards with the same
\* values, and a step of a request, on success or on an error, leaves the
\* store exactly as it was.
C8_AppendOnly ==
    [][/\ \A x \in store : x \in store'
       /\ req' # req => store' = store]_vars

\* The run has committed both symbols while requests were made, and the
\* last request was answered with rows of a store that has grown since.
C8_Witness ==
    /\ run["A"].pc = "done"
    /\ req.kind = "list" /\ req.pc = "done" /\ Len(req.data) > 0
    /\ req.total_count < Cardinality({ x \in store : Given(req.symbol) =>
                                                      x.symbol = req.symbol })
    /\ \E x, y \in store : x.symbol # y.symbol

\* The rows of `rows` that the call of insert_data_into_db for the k-th
\* symbol in run r wrote: a run makes one call per symbol.
Batch(r, k, rows) == { x \in rows : x.id = r /\ x.symbol = SymbolList[k] }

\* The rows of a response, as rows of the store.
ResponseRows(data) ==
    { x \in store : \E j \in 1..Len(data) : data[j] = FormatRow(x) }

\* A listing without date filters was answered with a first page that was
\* not full: the response holds every row its page query matched.
WholeListing ==
    /\ ListAnswered /\ req.page = 1 /\ Len(req.data) < req.limit
    /\ ~ Given(req.start_date) /\ ~ Given(req.end_date)

PageSize(count, limit, offset) ==
    LET left == IF count > offset THEN count - offset ELSE 0
    IN  IF left < limit THEN left ELSE limit

\* C12 as claimed: in every response with limit >= 1 and page >= 1 the
\* number of rows in data is min(limit, max(0, count - (page-1)*limit)) for
\* the count of that response, also when a commit lands between the count
\* query and the page query.
C12_CountAgreesWithPage ==
    (ListAnswered /\ req.limit >= 1 /\ req.page >= 1) =>
        Len(req.data) =
            PageSize(req.total_count, req.limit, (req.page - 1) * req.limit)

\* C12, amended: the page query of a request with limit >= 1 and page >= 1
\* returns min(limit, max(0, n - (page-1)*limit)) rows, where n is the
\* number of rows that match when the page query runs; n is never less than
\* the count of the response, and the response's count and page agree when
\* n is the count, that is when no commit of matching rows landed between
\* the two queries.
C12_PageAgreesWithStore ==
    [][(req.pc = "page" /\ req'.pc = "done"
          /\ req.limit >= 1 /\ req.page >= 1) =>
          LET n == Cardinality(Filtered)
              first == (req.page - 1) * req.limit
          IN  /\ Len(req'.data) = PageSize(n, req.limit, first)
              /\ req'.total_count <= n
              /\ req'.total_count = n =>
                    Len(req'.data) =
                        PageSize(req'.total_count, req.limit, first)]_vars

\* A response for page 2 that holds a row although, by its count, page 1
\* holds every row: the call for AAPL committed between the two queries.
C12_Witness ==
    /\ ListAnswered /\ req.page = 2 /\ req.limit >= 1
    /\ req.total_count >= 1 /\ req.total_count <= req.limit
    /\ Len(req.data) >= 1
    /\ \E j \in 1..Len(req.data) : req.data[j].symbol = "AAPL"

\* Everything run r has written: committed rows and rows of its open
\* transaction.
WrittenBy(r) == { x \in store \cup run[r].pending : x.id = r }

\* C14: a run handles the symbols in the order IBM, AAPL, fetching and then
\* inserting each one before it starts the next.  The list being inserted
\* is the one fetched for the current symbol; the run goes on to the next
\* symbol only by committing the current one's insert; it has written no
\* row of AAPL while it is at IBM.  A run that fails stops where it is, for
\* good, with the failure: its failing step commits nothing and removes
\* nothing, so a run that failed at IBM has written no row at all, and rows
\* committed before (IBM rows of an earlier call) stay in the store.
C14_SymbolOrder ==
    /\ [](\A r \in Runs :
            /\ run[r].sym \in 1..Len(SymbolList)
            /\ \A j \in 1..Len(run[r].data) :
                  run[r].data[j].symbol = SymbolList[run[r].sym]
            /\ \A x \in WrittenBy(r) :
                  \E k \in 1..run[r].sym : x.symbol = SymbolList[k]
            /\ \A x \in run[r].pending : x.symbol = SymbolList[run[r].sym]
            /\ run[r].pc = "done" => run[r].sym = Len(SymbolList)
            /\ run[r].pc = "failed" =>
                  /\ run[r].error # "none" /\ run[r].pending = {}
                  /\ run[r].sym = 1 => WrittenBy(r) = {})
    /\ [][\A r \in Runs :
            /\ run'[r].sym # run[r].sym =>
                  /\ run[r].pc = "insert" /\ run[r].i > Len(run[r].data)
                  /\ run'[r].sym = run[r].sym + 1 /\ run'[r].pc = "fetch"
                  /\ store' = store \cup run[r].pending
            /\ (run[r].pc = "idle" /\ run'[r].pc # "idle") =>
                  run'[r].pc = "fetch" /\ run'[r].sym = 1
            /\ (run[r].pc = "fetch" /\ run'[r].pc # "fetch") =>
                  run'[r].pc \in { "insert", "failed" }
            /\ (run[r].pc # "failed" /\ run'[r].pc = "failed") =>
                  /\ run[r].pc \in { "fetch", "insert" }
                  /\ store' = store
                  /\ run'[r].sym = run[r].sym
            /\ run[r].pc \in { "failed", "done" } => run'[r] = run[r]
            /\ \A x \in store : x \in store']_vars

\* A run whose insert for IBM failed has stopped there, while the store
\* holds the IBM rows another run committed before and that run goes on
\* with AAPL.
C14_Witness ==
    \E r, o \in Runs :
        /\ run[r].pc = "failed" /\ run[r].sym = 1
        /\ run[r].error = "OperationalError"
        /\ Batch(o, 1, store) # {}
        /\ run[o].sym = 2 /\ run[o].pending # {}

====
